---- MODULE Spec2Model ----
(***************************************************************************)
(* Zip processor of the codebase-intelligence function                     *)
(* (app/functions/zip_processor/function_app.py).                          *)
(*                                                                         *)
(* One blob-trigger invocation of zip_processor is modelled: the handler   *)
(* parses the job descriptor, runs process_zip_job once, and returns or    *)
(* re-raises.  process_zip_job is a coroutine; every await of a           *)
(* collaborator (get_session_chunks, upload_session_progress, upload_blob, *)
(* add_file, delete_session) is one step that either returns or raises.    *)
(*                                                                         *)
(* Strings are sequences of one-character strings, so that replace,        *)
(* lstrip, splitext, lower and rsplit are computed as Python computes them.*)
(***************************************************************************)
EXTENDS Integers, Sequences, FiniteSets, TLC

(***************************************************************************)
(* Program constants                                                       *)
(***************************************************************************)
MAX_ZIP_SIZE_BYTES == 50 * 1024 * 1024

MAX_ZIP_FILE_COUNT == 30000

(***************************************************************************)
(* Bounds of the model                                                     *)
(***************************************************************************)
\* longest explicit archive listing that is enumerated
MaxEntries == 3

\* longest explicit archive listing of the runs followed to their end
MaxLiveEntries == 2

\* executions of the handler for one job blob: the first and the host's retries
MaxRuns == 2

\* calls of describe / get_media_describer made on one FigureProcessor
MaxFigCalls == 3

\* calls of process_page_image made on one image
MaxPageCalls == 3

\* invocations of the pipeline in one process
MaxInvocations == 3

(***************************************************************************)
(* Python string helpers                                                   *)
(***************************************************************************)
\* Python None, as a value comparable with character sequences
None == <<"<None>">>

\* truthiness of a str-or-None value: None and "" are falsy
Truthy(v) == v # None /\ v # <<>>

\* s.endswith(c) for a one-character c
EndsWith(s, c) == Len(s) > 0 /\ s[Len(s)] = c

RECURSIVE Replace(_, _, _)
\* s.replace(c, t): every occurrence of the character c becomes the string t
Replace(s, c, t) ==
    IF s = <<>> THEN <<>>
    ELSE (IF Head(s) = c THEN t ELSE <<Head(s)>>) \o Replace(Tail(s), c, t)

RECURSIVE LStrip(_, _)
\* s.lstrip(c): every leading occurrence of c is removed
LStrip(s, c) ==
    IF s # <<>> /\ Head(s) = c THEN LStrip(Tail(s), c) ELSE s

\* s.rfind(c), 1-based; 0 when c does not occur (Python's -1)
RFind(s, c) ==
    LET hits == {i \in 1..Len(s) : s[i] = c}
    IN  IF hits = {} THEN 0 ELSE CHOOSE i \in hits : \A j \in hits : j <= i

\* c.lower() on the alphabet of the model
LowerChar(c) ==
    CASE c = "T" -> "t"
      [] c = "S" -> "s"
      [] OTHER   -> c

\* s.lower()
Lower(s) == [i \in 1..Len(s) |-> LowerChar(s[i])]

\* os.path.splitext(p)[1]: the extension starts at the last dot, provided that
\* dot follows the last separator and is not part of the leading dots of the
\* last component
SplitExt(p) ==
    LET sepIndex == RFind(p, "/")
        dotIndex == RFind(p, ".")
    IN  IF dotIndex > sepIndex
           /\ \E k \in (sepIndex + 1)..(dotIndex - 1) : p[k] # "."
        THEN SubSeq(p, dotIndex, Len(p))
        ELSE <<>>

\* filename.rsplit(".", 1)[0] if "." in filename else "archive"
ZipBasename(fname) ==
    IF RFind(fname, ".") > 0
    THEN SubSeq(fname, 1, RFind(fname, ".") - 1)
    ELSE <<"a", "r", "c", "h", "i", "v", "e">>

\* name.replace("\\", "/").lstrip("/")
RelPath(name) == LStrip(Replace(name, "\\", <<"/">>), "/")

\* f"{zip_basename}__{rel_path.replace('/', '__')}"
Flattened(basename, rel_path) ==
    basename \o <<"_", "_">> \o Replace(rel_path, "/", <<"_", "_">>)

(***************************************************************************)
(* Inputs                                                                  *)
(***************************************************************************)
\* set(ingester.file_processors.keys()): the configured extensions
SupportedExtensions == {<<".", "t", "s">>}

\* archive entry names of the model: "a/b.ts", "a__b.ts", "\a\b.TS",
\* the directory entry "d/" and the unsupported "n.bin"
NamePool ==
    { <<"a", "/", "b", ".", "t", "s">>,
      <<"a", "_", "_", "b", ".", "t", "s">>,
      <<"\\", "a", "\\", "b", ".", "T", "S">>,
      <<"d", "/">>,
      <<"n", ".", "b", "i", "n">> }

\* the listings that are written out entry by entry
Listings == UNION {[1..n -> NamePool] : n \in 0..MaxEntries}

\* An assembled archive: its byte size, whether the bytes are a zip file, the
\* entries written out, and how many further entries the listing holds:
\* fillerFiles files of an unsupported extension and fillerDirs directories.
Archives ==
    { [size |-> s, valid |-> v, names |-> n,
       fillerFiles |-> f[1], fillerDirs |-> f[2]] :
      s \in {0, MAX_ZIP_SIZE_BYTES, MAX_ZIP_SIZE_BYTES + 1},
      v \in BOOLEAN,
      n \in Listings,
      f \in { <<0, 0>>, <<MAX_ZIP_FILE_COUNT - 1, 0>>,
              <<MAX_ZIP_FILE_COUNT - 1, 2>>, <<MAX_ZIP_FILE_COUNT, 0>> } }

\* values of a field of the job descriptor: null, "", a non-empty string
ProjZip == <<"p", "r", "o", "j", ".", "z", "i", "p">>

Oid == <<"u", "1">>

JobKeys == {"filename", "user_oid"}

\* the JSON objects over the two keys of the descriptor
JobObjects ==
    UNION { {o \in [K -> {None, <<>>, ProjZip, Oid}] :
               /\ "filename" \in K => o["filename"] # Oid
               /\ "user_oid" \in K => o["user_oid"] # ProjZip} :
            K \in SUBSET JobKeys }

\* blob contents: bytes that do not parse, JSON values that are no object,
\* and JSON objects
Bodies ==
    {[kind |-> "invalid"], [kind |-> "null"], [kind |-> "array"],
     [kind |-> "string"]}
    \cup {[kind |-> "object", value |-> o] : o \in JobObjects}

\* dict.get(k): None when the key is absent
DictGet(d, k) == IF k \in DOMAIN d THEN d[k] ELSE None

(***************************************************************************)
(* State                                                                   *)
(***************************************************************************)
VARIABLES
    body,         \* contents of the _job.json blob
    hpc,          \* zip_processor: "triggered", "running", "returned", "raised"
    herr,         \* exception zip_processor raised to the host, or "none"
    invocations,  \* number of calls of process_zip_job
    filename,     \* arguments of process_zip_job
    user_oid,
    pc,           \* position of process_zip_job
    raised,       \* exception process_zip_job raised to its caller, or "none"
    data,         \* result of get_session_chunks
    chunks,       \* the session's chunk state exists in the store
    to_process,   \* locals of process_zip_job
    files_total,
    indexed_ids,
    files_done,
    idx,          \* position of the for loop in to_process
    progress,     \* the stored progress snapshot of the session
    calls,        \* arguments of every upload_session_progress call, in order
    writes,       \* the calls among them that succeeded
    uploads,      \* positions in to_process whose upload_blob returned
    adds,         \* positions in to_process whose add_file returned
    failed,       \* <<position, step>> of every exception the loop caught
    deletes       \* number of delete_session calls

\* the job across executions
VARIABLES
    stored,       \* the archive the session's chunks assemble to, once read
    runs          \* executions of zip_processor for this job blob so far

\* one FigureProcessor and the calls made on it
VARIABLES
    fp,                           \* strategy and configuration of the processor
    media_describer,              \* the cached describer: 0 for None, or its id
    content_understanding_ready,  \* the readiness latch
    analyzer_created,             \* create_analyzer has been awaited
    figlog,                       \* constructions and remote calls so far
    cpc,                          \* position of the call in progress
    cop,                          \* the operation that was called
    results                       \* the calls that ended, with their outcome

\* one ImageOnPage and the process_page_image calls made on it
VARIABLES
    image,        \* url, description, embedding
    ppc,          \* position of process_page_image
    pargs,        \* the collaborators passed to the call in progress
    pentry,       \* image and collaborator calls when that call started
    plog,         \* collaborator calls so far
    poutcome      \* how the last call ended

\* get_settings and the invocations of one process
VARIABLES
    settings_cache,  \* get_settings._settings: 0 while unset, or the object
    spc,             \* position of each invocation
    held,            \* the settings object each invocation works with
    slog             \* objects built, who built and who used each

\* one call of error_dict or error_response
VARIABLES
    error,        \* the exception passed to the call
    status_code,  \* the status_code argument: <<>> when it is left out
    called,       \* the function that was called, "none" before the call
    response      \* what the call returned

errVars == <<error, status_code, called, response>>

figVars ==
    <<fp, media_describer, content_understanding_ready, analyzer_created,
      figlog, cpc, cop, results>>

pageVars == <<image, ppc, pargs, pentry, plog, poutcome>>

settingsVars == <<settings_cache, spc, held, slog>>

\* the handler, the job it runs and the store, over all executions
pipelineVars ==
    <<body, hpc, herr, invocations, filename, user_oid, pc, raised, data,
      chunks, to_process, files_total, indexed_ids, files_done, idx, progress,
      calls, writes, uploads, adds, failed, deletes, stored, runs>>

\* everything outside one execution of the handler
outsideRun == <<figVars, pageVars, settingsVars, errVars, runs>>

vars ==
    <<body, hpc, herr, invocations, filename, user_oid, pc, raised, data,
      chunks, to_process, files_total, indexed_ids, files_done, idx, progress,
      calls, writes, uploads, adds, failed, deletes, stored, runs, figVars,
      pageVars, settingsVars, errVars>>

\* the variables of the handler
handlerVars == <<body, hpc, herr, invocations, filename, user_oid>>

\* the locals of process_zip_job set before the loop
jobLocals == <<data, to_process, files_total>>

\* the collaborators' stored state and the record of their calls
storeVars == <<chunks, progress, calls, writes, uploads, adds, deletes>>

NoSnapshot == [status |-> "none"]

NoData == [size |-> 0]

\* the chunks have not been read yet
Unread == [size |-> -1]

Invocations == 1..MaxInvocations

\* a FigureProcessor constructed with strategy NONE and nothing else
DefaultProcessor ==
    [strategy |-> "NONE", openai_client |-> FALSE, openai_model |-> FALSE,
     content_understanding_endpoint |-> FALSE, credential |-> "none"]

\* the processor has been constructed and no call was made on it
FigStart ==
    /\ media_describer = 0
    /\ content_understanding_ready = FALSE
    /\ analyzer_created = FALSE
    /\ figlog = [constructions |-> 0, create_analyzer |-> 0,
                 describe_image |-> 0, warnings |-> 0, started |-> 0,
                 marked_first |-> FALSE]
    /\ cpc = "idle"
    /\ cop = "none"
    /\ results = <<>>

\* a FigureProcessor that is not looked at
FigIdle ==
    /\ fp = DefaultProcessor
    /\ FigStart

\* image.url is None
NoUrl == <<>>

\* a url the image got in an earlier run
ExistingUrl == <<"https://existing.com/image.png">>

NoArgs == [blob_manager |-> FALSE, image_embeddings_client |-> FALSE,
           figure_processor |-> FALSE]

\* an image whose url is u, before any process_page_image call on it
PageStart(u) ==
    /\ image = [url |-> u, description |-> "None", embedding |-> "None"]
    /\ ppc = "idle"
    /\ pargs = NoArgs
    /\ plog = [calls |-> 0, upload |-> 0, upload_returned |-> 0,
               upload_with_url |-> 0, describe |-> 0, embed |-> 0,
               url_first |-> u]
    /\ pentry = [image |-> image, plog |-> plog]
    /\ poutcome = "none"

\* an image that is not looked at
PageIdle == PageStart(NoUrl)

\* no invocation has called get_settings
SettingsIdle ==
    /\ settings_cache = 0
    /\ spc = [i \in Invocations |-> "idle"]
    /\ held = [i \in Invocations |-> 0]
    /\ slog = [built |-> <<>>, hit |-> {}, used |-> {}]

\* an exception that is neither an APIError nor an HttpResponseError
PlainError ==
    [api |-> FALSE, code |-> "None", http |-> FALSE, message |-> "None",
     status |-> <<>>, has_response |-> FALSE]

NoResponse == [body |-> [error |-> <<>>], status |-> <<>>]

\* neither error_dict nor error_response is called
ErrIdle ==
    /\ error = PlainError
    /\ status_code = <<>>
    /\ called = "none"
    /\ response = NoResponse

\* the handler is triggered and nothing of it has run
HandlerStart ==
    /\ hpc = "triggered"
    /\ herr = "none"
    /\ invocations = 0
    /\ filename = None
    /\ user_oid = None
    /\ pc = "idle"
    /\ raised = "none"
    /\ data = NoData
    /\ to_process = <<>>
    /\ files_total = 0
    /\ indexed_ids = <<>>
    /\ files_done = 0
    /\ idx = 0
    /\ progress = NoSnapshot
    /\ calls = <<>>
    /\ writes = <<>>
    /\ uploads = <<>>
    /\ adds = <<>>
    /\ failed = <<>>
    /\ deletes = 0
    /\ runs = 1

\* the handler is triggered and the chunks of its session were never read
PipelineStart ==
    /\ HandlerStart
    /\ stored = Unread

\* the job blob and the session of a pipeline that is not looked at
PipelineIdle ==
    /\ PipelineStart
    /\ body = [kind |-> "invalid"]
    /\ chunks = FALSE

Init ==
    /\ FigIdle
    /\ PageIdle
    /\ SettingsIdle
    /\ ErrIdle
    /\ PipelineStart
    /\ body \in Bodies
    /\ chunks \in BOOLEAN

(***************************************************************************)
(* Archive selection (process_zip_job, before the loop)                    *)
(***************************************************************************)
IsDir(m) == EndsWith(m, "/")

\* len(zf.namelist())
ListingCount(a) == Len(a.names) + a.fillerFiles + a.fillerDirs

\* [m for m in zf.namelist() if not m.endswith("/")], the part written out
Members(a) == SelectSeq(a.names, LAMBDA m : ~IsDir(m))

\* len(members)
MemberCount(a) == Len(Members(a)) + a.fillerFiles

\* the tuple (name, rel_path, flattened) of one member
Entry(name, basename) ==
    [name |-> name, rel_path |-> RelPath(name),
     flattened |-> Flattened(basename, RelPath(name))]

RECURSIVE ToProcess_CaseSensitive(_, _)
\* the comprehension comparing the extension as it is spelled
ToProcess_CaseSensitive(members, basename) ==
    IF members = <<>> THEN <<>>
    ELSE LET name == Head(members)
             ext  == SplitExt(RelPath(name))
         IN  (IF ext \in SupportedExtensions
              THEN <<Entry(name, basename)>> ELSE <<>>)
             \o ToProcess_CaseSensitive(Tail(members), basename)

RECURSIVE ToProcess(_, _)
\* the list comprehension to_process over the members
ToProcess(members, basename) ==
    IF members = <<>> THEN <<>>
    ELSE LET name == Head(members)
             ext  == Lower(SplitExt(RelPath(name)))
         IN  (IF ext \in SupportedExtensions
              THEN <<Entry(name, basename)>> ELSE <<>>)
             \o ToProcess(Tail(members), basename)

\* the count check with >= for >
CountExceeded_OffByOne(a) == MemberCount(a) >= MAX_ZIP_FILE_COUNT

\* len(members) > MAX_ZIP_FILE_COUNT
CountExceeded(a) == MemberCount(a) > MAX_ZIP_FILE_COUNT

\* the checks without the size check
Validate_NoSizeCheck(present, a) ==
    IF ~present \/ a.size = 0 THEN "ValueError: no chunks"
    ELSE IF ~a.valid THEN "BadZipFile"
    ELSE IF CountExceeded(a) THEN "ValueError: count"
    ELSE "ok"

\* the outcome of the checks between get_session_chunks and the first
\* snapshot: the exception raised, or "ok"
Validate(present, a) ==
    IF ~present \/ a.size = 0 THEN "ValueError: no chunks"
    ELSE IF a.size > MAX_ZIP_SIZE_BYTES THEN "ValueError: size"
    ELSE IF ~a.valid THEN "BadZipFile"
    ELSE IF CountExceeded(a) THEN "ValueError: count"
    ELSE "ok"

\* the keyword arguments of one upload_session_progress call
Snapshot(status, total, done, ids, oid) ==
    [status |-> status, files_total |-> total, files_done |-> done,
     indexed_ids |-> ids, user_oid |-> oid]

(***************************************************************************)
(* zip_processor                                                           *)
(***************************************************************************)
\* The handler up to asyncio.run: json.loads fails -> log and return; the
\* parsed value has no get -> AttributeError escapes; a field is missing or
\* falsy -> log and return; else process_zip_job is started.
ZipProcessor ==
    /\ hpc = "triggered"
    /\ IF body.kind = "invalid"
       THEN /\ hpc' = "returned"
            /\ UNCHANGED <<herr, invocations, filename, user_oid, pc>>
       ELSE IF body.kind # "object"
       THEN /\ hpc' = "raised"
            /\ herr' = "AttributeError"
            /\ UNCHANGED <<invocations, filename, user_oid, pc>>
       ELSE LET fn == DictGet(body.value, "filename")
                uo == DictGet(body.value, "user_oid")
            IN  IF ~Truthy(fn) \/ ~Truthy(uo)
                THEN /\ hpc' = "returned"
                     /\ UNCHANGED <<herr, invocations, filename, user_oid, pc>>
                ELSE /\ hpc' = "running"
                     /\ invocations' = invocations + 1
                     /\ filename' = fn
                     /\ user_oid' = uo
                     /\ pc' = "get_chunks"
                     /\ herr' = herr
    /\ UNCHANGED <<body, raised, jobLocals, storeVars, indexed_ids,
                   files_done, idx, failed>>
    /\ UNCHANGED <<outsideRun, stored>>

\* the except clause without its raise
HandlerOutcome_Swallow(jobpc) == "returned"

\* try: asyncio.run(...) / except Exception: log and raise
HandlerOutcome(jobpc) == IF jobpc = "returned" THEN "returned" ELSE "raised"

\* asyncio.run returned or raised: log and return, or log and re-raise
ZipProcessorFinish ==
    /\ hpc = "running"
    /\ pc \in {"returned", "raised"}
    /\ hpc' = HandlerOutcome(pc)
    /\ herr' = IF HandlerOutcome(pc) = "raised" THEN raised ELSE herr
    /\ UNCHANGED <<body, invocations, filename, user_oid, pc, raised,
                   jobLocals, storeVars, indexed_ids, files_done, idx, failed>>
    /\ UNCHANGED <<outsideRun, stored>>

(***************************************************************************)
(* Collaborators (prepdocslib.blobmanager.AdlsBlobManager)                 *)
(***************************************************************************)
\* upload_session_progress returning: the stored snapshot is replaced in full
WriteSnapshot(snap) ==
    /\ progress' = snap
    /\ writes' = Append(writes, snap)

\* delete_session(upload_id, keep_progress) returning: the chunk state is
\* gone, and the progress snapshot with it unless keep_progress
DeleteSessionReturns(keep_progress) ==
    /\ chunks' = FALSE
    /\ progress' = IF keep_progress THEN progress ELSE NoSnapshot

(***************************************************************************)
(* process_zip_job                                                         *)
(***************************************************************************)
\* the for statement: take the next entry of to_process, or leave the loop
LoopNext ==
    IF idx < Len(to_process)
    THEN pc' = "read" /\ idx' = idx + 1
    ELSE pc' = "progress_final" /\ idx' = idx

\* the except clause taking the same entry again
PerFileExcept_Retry(step) ==
    /\ failed' = Append(failed, <<idx, step>>)
    /\ raised' = raised
    /\ pc' = "read"
    /\ idx' = idx

\* the loop without its except clause: the exception leaves the job
PerFileExcept_Propagate(step) ==
    /\ failed' = Append(failed, <<idx, step>>)
    /\ raised' = step
    /\ pc' = "raised"
    /\ idx' = idx

\* except Exception: log and go on with the next entry
PerFileExcept(step) ==
    /\ failed' = Append(failed, <<idx, step>>)
    /\ raised' = raised
    /\ LoopNext

\* an exception leaving process_zip_job
Raise(e) ==
    /\ pc' = "raised"
    /\ raised' = e

\* the id list started over instead of extended
AppendId_Reset(ids, key) == <<key>>

\* the key put in front of the list instead of at its end
AppendId_Prepend(ids, key) == <<key>> \o ids

\* indexed_ids.append(flattened)
AppendId(ids, key) == Append(ids, key)

\* the arguments of the snapshot written before the loop
InitArgs == Snapshot("processing", files_total, 0, <<>>, user_oid)

\* the push placed before the increment: the count lags by one
PushArgs_Stale ==
    Snapshot("processing", files_total, files_done - 1, indexed_ids, user_oid)

\* the arguments of the snapshot pushed after a file
PushArgs ==
    Snapshot("processing", files_total, files_done, indexed_ids, user_oid)

\* completed only when every file succeeded
FinalArgs_AllOrProcessing ==
    Snapshot(IF files_done = files_total THEN "completed" ELSE "processing",
             files_total, files_done, indexed_ids, user_oid)

\* the arguments of the snapshot written after the loop
FinalArgs ==
    Snapshot("completed", files_total, files_done, indexed_ids, user_oid)

\* delete_session without keep_progress
DeleteCall_DropProgress == DeleteSessionReturns(FALSE)

\* adls_manager.delete_session(upload_id, keep_progress=True) returning
DeleteCall == DeleteSessionReturns(TRUE)

\* get_settings, get_session_chunks and the checks and locals up to the first
\* snapshot
GetSessionChunks ==
    /\ pc = "get_chunks"
    /\ \/ /\ Raise("CollaboratorError")
          /\ UNCHANGED <<jobLocals, indexed_ids, files_done, idx, stored>>
       \/ \E a \in (IF ~chunks THEN {NoData}
                    ELSE IF stored = Unread THEN Archives ELSE {stored}) :
            /\ data' = a
            /\ stored' = IF chunks THEN a ELSE stored
            /\ IF Validate(chunks, a) = "ok"
               THEN /\ to_process' =
                         ToProcess(Members(a), ZipBasename(filename))
                    /\ files_total' = Len(to_process')
                    /\ indexed_ids' = <<>>
                    /\ files_done' = 0
                    /\ idx' = 0
                    /\ pc' = "progress_init"
                    /\ raised' = raised
               ELSE /\ Raise(Validate(chunks, a))
                    /\ UNCHANGED <<to_process, files_total, indexed_ids,
                                   files_done, idx>>
    /\ UNCHANGED <<handlerVars, storeVars, failed, outsideRun>>

\* the snapshot written before the loop
ProgressInit ==
    /\ pc = "progress_init"
    /\ LET snap == InitArgs
       IN  /\ calls' = Append(calls, snap)
           /\ \/ /\ WriteSnapshot(snap)
                 /\ LoopNext
                 /\ raised' = raised
              \/ /\ Raise("CollaboratorError")
                 /\ UNCHANGED <<progress, writes, idx>>
    /\ UNCHANGED <<handlerVars, jobLocals, indexed_ids, files_done, chunks,
                   uploads, adds, deletes, failed>>
    /\ UNCHANGED <<outsideRun, stored>>

\* raw = zf.read(name) and the wrapping of the bytes
ReadEntry ==
    /\ pc = "read"
    /\ \/ /\ pc' = "upload"
          /\ UNCHANGED <<idx, raised, failed>>
       \/ PerFileExcept("read")
    /\ UNCHANGED <<handlerVars, jobLocals, storeVars, indexed_ids, files_done>>
    /\ UNCHANGED <<outsideRun, stored>>

\* await adls_manager.upload_blob(content, flattened, user_oid)
UploadBlob ==
    /\ pc = "upload"
    /\ \/ /\ uploads' = Append(uploads, idx)
          /\ pc' = "add_file"
          /\ UNCHANGED <<idx, raised, failed>>
       \/ /\ PerFileExcept("upload_blob")
          /\ uploads' = uploads
    /\ UNCHANGED <<handlerVars, jobLocals, indexed_ids, files_done, chunks,
                   progress, calls, writes, adds, deletes>>
    /\ UNCHANGED <<outsideRun, stored>>

\* await ingester.add_file(...), then the append and the increment
AddFile ==
    /\ pc = "add_file"
    /\ \/ /\ adds' = Append(adds, idx)
          /\ indexed_ids' = AppendId(indexed_ids, to_process[idx].flattened)
          /\ files_done' = files_done + 1
          /\ pc' = "push"
          /\ UNCHANGED <<idx, raised, failed>>
       \/ /\ PerFileExcept("add_file")
          /\ UNCHANGED <<adds, indexed_ids, files_done>>
    /\ UNCHANGED <<handlerVars, jobLocals, chunks, progress, calls, writes,
                   uploads, deletes>>
    /\ UNCHANGED <<outsideRun, stored>>

\* the snapshot pushed after a file, inside the try block
PushProgress ==
    /\ pc = "push"
    /\ LET snap == PushArgs
       IN  /\ calls' = Append(calls, snap)
           /\ \/ /\ WriteSnapshot(snap)
                 /\ LoopNext
                 /\ UNCHANGED <<raised, failed>>
              \/ /\ PerFileExcept("upload_session_progress")
                 /\ UNCHANGED <<progress, writes>>
    /\ UNCHANGED <<handlerVars, jobLocals, indexed_ids, files_done, chunks,
                   uploads, adds, deletes>>
    /\ UNCHANGED <<outsideRun, stored>>

\* the snapshot written after the loop
ProgressFinal ==
    /\ pc = "progress_final"
    /\ LET snap == FinalArgs
       IN  /\ calls' = Append(calls, snap)
           /\ \/ /\ WriteSnapshot(snap)
                 /\ pc' = "delete"
                 /\ raised' = raised
              \/ /\ Raise("CollaboratorError")
                 /\ UNCHANGED <<progress, writes>>
    /\ UNCHANGED <<handlerVars, jobLocals, indexed_ids, files_done, idx,
                   chunks, uploads, adds, deletes, failed>>
    /\ UNCHANGED <<outsideRun, stored>>

\* await adls_manager.delete_session(upload_id, keep_progress=True)
DeleteSession ==
    /\ pc = "delete"
    /\ deletes' = deletes + 1
    /\ \/ /\ DeleteCall
          /\ pc' = "returned"
          /\ raised' = raised
       \/ /\ Raise("CollaboratorError")
          /\ UNCHANGED <<chunks, progress>>
    /\ UNCHANGED <<handlerVars, jobLocals, indexed_ids, files_done, idx,
                   calls, writes, uploads, adds, failed>>
    /\ UNCHANGED <<outsideRun, stored>>

Next ==
    \/ ZipProcessor
    \/ GetSessionChunks
    \/ ProgressInit
    \/ ReadEntry
    \/ UploadBlob
    \/ AddFile
    \/ PushProgress
    \/ ProgressFinal
    \/ DeleteSession
    \/ ZipProcessorFinish

Spec == Init /\ [][Next]_vars

\* the job descriptors for which the handler starts process_zip_job
JobBodies ==
    {b \in Bodies :
       /\ b.kind = "object"
       /\ Truthy(DictGet(b.value, "filename"))
       /\ Truthy(DictGet(b.value, "user_oid"))}

\* the archives whose written-out listing is short
LiveArchives == {a \in Archives : Len(a.names) <= MaxLiveEntries}

\* a handler triggered with a job descriptor that starts a run, for a
\* session without chunks or one whose chunks assemble to a given archive
FairInit ==
    /\ FigIdle
    /\ PageIdle
    /\ SettingsIdle
    /\ ErrIdle
    /\ HandlerStart
    /\ body \in JobBodies
    /\ \/ chunks = FALSE /\ stored = Unread
       \/ chunks = TRUE /\ stored \in LiveArchives

\* Every step of the handler and of the job is a statement of the running
\* code or an awaited collaborator call that returns or raises: a step that
\* can be taken is taken.
FairSpec == FairInit /\ [][Next]_vars /\ WF_vars(Next)

(***************************************************************************)
(* Re-execution for one job blob                                           *)
(***************************************************************************)
\* The handler re-raised (lines 256-257), so the host delivers the blob again:
\* a new execution starts with fresh locals, while the stored snapshot and
\* the chunk state of the session are what the earlier execution left.
HostRetry ==
    /\ hpc = "raised"
    /\ runs < MaxRuns
    /\ runs' = runs + 1
    /\ hpc' = "triggered"
    /\ herr' = "none"
    /\ invocations' = 0
    /\ filename' = None
    /\ user_oid' = None
    /\ pc' = "idle"
    /\ raised' = "none"
    /\ data' = NoData
    /\ to_process' = <<>>
    /\ files_total' = 0
    /\ indexed_ids' = <<>>
    /\ files_done' = 0
    /\ idx' = 0
    /\ calls' = <<>>
    /\ writes' = <<>>
    /\ uploads' = <<>>
    /\ adds' = <<>>
    /\ failed' = <<>>
    /\ deletes' = 0
    /\ UNCHANGED <<body, chunks, progress, stored, figVars, pageVars,
                   settingsVars, errVars>>

RetryNext ==
    \/ ZipProcessor
    \/ GetSessionChunks
    \/ ProgressInit
    \/ ReadEntry
    \/ UploadBlob
    \/ AddFile
    \/ PushProgress
    \/ ProgressFinal
    \/ DeleteSession
    \/ ZipProcessorFinish
    \/ HostRetry

RetrySpec == Init /\ [][RetryNext]_vars

(***************************************************************************)
(* get_settings, called by the invocations of one process                  *)
(***************************************************************************)
\* Each invocation is one process_zip_job, which starts by calling
\* get_settings (line 144).  The host runs the synchronous handler on its
\* worker threads, so the calls of different invocations may follow one
\* another or interleave between the statements of get_settings.
SettingsInit ==
    /\ PipelineIdle
    /\ FigIdle
    /\ PageIdle
    /\ SettingsIdle
    /\ ErrIdle

\* the check that never finds the attribute
CacheHit_Never == FALSE

\* hasattr(get_settings, "_settings")
CacheHit == settings_cache # 0

\* line 46: the test of the function attribute
GetSettingsCheck(i) ==
    /\ spc[i] = "idle"
    /\ spc' = [spc EXCEPT ![i] = IF CacheHit THEN "hit" ELSE "build"]
    /\ slog' = [slog EXCEPT !.hit = IF settings_cache # 0 THEN @ \cup {i} ELSE @]
    /\ UNCHANGED <<settings_cache, held>>
    /\ UNCHANGED <<pipelineVars, figVars, pageVars, errVars>>

\* line 47: return get_settings._settings
GetSettingsCached(i) ==
    /\ spc[i] = "hit"
    /\ held' = [held EXCEPT ![i] = settings_cache]
    /\ spc' = [spc EXCEPT ![i] = "using"]
    /\ UNCHANGED <<settings_cache, slog>>
    /\ UNCHANGED <<pipelineVars, figVars, pageVars, errVars>>

\* lines 49-135: the clients are constructed and the dict is stored on the
\* function, or a constructor raises and nothing is stored
GetSettingsBuild(i) ==
    /\ spc[i] = "build"
    /\ \/ /\ slog' = [slog EXCEPT !.built = Append(@, i)]
          /\ settings_cache' = Len(slog.built) + 1
          /\ spc' = [spc EXCEPT ![i] = "return"]
       \/ /\ spc' = [spc EXCEPT ![i] = "raised"]
          /\ UNCHANGED <<settings_cache, slog>>
    /\ held' = held
    /\ UNCHANGED <<pipelineVars, figVars, pageVars, errVars>>

\* line 139: return get_settings._settings
GetSettingsReturn(i) ==
    /\ spc[i] = "return"
    /\ held' = [held EXCEPT ![i] = settings_cache]
    /\ spc' = [spc EXCEPT ![i] = "using"]
    /\ UNCHANGED <<settings_cache, slog>>
    /\ UNCHANGED <<pipelineVars, figVars, pageVars, errVars>>

\* lines 145-224: the job works through settings["adls_manager"] and
\* settings["ingester"]
UseSettings(i) ==
    /\ spc[i] = "using"
    /\ slog' = [slog EXCEPT !.used = @ \cup {<<held[i], i>>}]
    /\ spc' = [spc EXCEPT ![i] = "done"]
    /\ UNCHANGED <<settings_cache, held>>
    /\ UNCHANGED <<pipelineVars, figVars, pageVars, errVars>>

SettingsNext ==
    \/ \E i \in Invocations : GetSettingsCheck(i)
    \/ \E i \in Invocations : GetSettingsCached(i)
    \/ \E i \in Invocations : GetSettingsBuild(i)
    \/ \E i \in Invocations : GetSettingsReturn(i)
    \/ \E i \in Invocations : UseSettings(i)

SettingsSpec == SettingsInit /\ [][SettingsNext]_vars

(***************************************************************************)
(* FigureProcessor (prepdocslib.figureprocessor): describer acquisition    *)
(***************************************************************************)
Strategies == {"NONE", "OPENAI", "CONTENTUNDERSTANDING", "unknown_strategy"}

\* the processors FigureProcessor(...) can construct; the unknown strategy
\* is assigned afterwards
Processors ==
    [strategy : Strategies, openai_client : BOOLEAN, openai_model : BOOLEAN,
     content_understanding_endpoint : BOOLEAN,
     credential : {"none", "token", "key"}]

FigInit ==
    /\ PipelineIdle
    /\ PageIdle
    /\ SettingsIdle
    /\ ErrIdle
    /\ fp \in Processors
    /\ FigStart

MsgOpenAI == "requires both a client and a model name"

MsgEndpoint == "Content Understanding strategy requires an endpoint"

MsgCredential == "Content Understanding strategy requires a credential"

MsgKey == "Content Understanding does not support key credentials"

\* the validation that lets a key credential through
ConfigErrors_KeyAccepted(p) ==
    IF p.strategy = "OPENAI"
    THEN IF p.openai_client /\ p.openai_model THEN {} ELSE {MsgOpenAI}
    ELSE IF p.strategy = "CONTENTUNDERSTANDING"
    THEN (IF p.content_understanding_endpoint THEN {} ELSE {MsgEndpoint})
         \cup (IF p.credential = "none" THEN {MsgCredential} ELSE {})
    ELSE {}

\* the messages the configuration of p can be rejected with: where two
\* defects are present the order of the checks decides, and it is not fixed
ConfigErrors(p) ==
    IF p.strategy = "OPENAI"
    THEN IF p.openai_client /\ p.openai_model THEN {} ELSE {MsgOpenAI}
    ELSE IF p.strategy = "CONTENTUNDERSTANDING"
    THEN (IF p.content_understanding_endpoint THEN {} ELSE {MsgEndpoint})
         \cup (IF p.credential = "none" THEN {MsgCredential} ELSE {})
         \cup (IF p.credential = "key" THEN {MsgKey} ELSE {})
    ELSE {}

\* the lookup that never finds a describer
IsCached_Never == FALSE

\* a describer has been constructed and kept: the state Cached
IsCached == media_describer # 0

\* every value but NONE taken for a strategy with a describer
HasDescriber_AnyButNone(strategy) == strategy # "NONE"

\* the strategies that have a describer
HasDescriber(strategy) == strategy \in {"OPENAI", "CONTENTUNDERSTANDING"}

\* the call in progress ends with this outcome
FigReturn(outcome, describer) ==
    /\ results' = Append(results, [op |-> cop, outcome |-> outcome,
                                   describer |-> describer])
    /\ cpc' = "idle"
    /\ cop' = "none"

\* what describe does next with its describer: a Content Understanding
\* describer whose analyzer was not created yet gets create_analyzer first;
\* when a caller has set the readiness latch before that, the step may be
\* taken or skipped (the latch records that provisioning was confirmed)
AfterAcquire ==
    IF fp.strategy = "CONTENTUNDERSTANDING" /\ ~analyzer_created
    THEN IF content_understanding_ready
         THEN {"create_analyzer", "describe_image"}
         ELSE {"create_analyzer"}
    ELSE {"describe_image"}

\* describe goes on with the describer it acquired
DescribeWith(describer) ==
    /\ cpc' \in AfterAcquire
    /\ UNCHANGED <<cop, results>>

\* get_media_describer gave this describer to the operation that called it
Acquired(describer) ==
    IF cop = "get_media_describer"
    THEN FigReturn("describer", describer)
    ELSE DescribeWith(describer)

\* a caller awaits describe(bytes) or get_media_describer()
FigCall(op) ==
    /\ cpc = "idle"
    /\ figlog.started < MaxFigCalls
    /\ cop' = op
    /\ cpc' = "acquire"
    /\ figlog' = [figlog EXCEPT !.started = @ + 1]
    /\ UNCHANGED <<fp, media_describer, content_understanding_ready,
                   analyzer_created, results>>
    /\ UNCHANGED <<pipelineVars, pageVars, settingsVars, errVars>>

\* get_media_describer: NONE has no describer; a cached describer is
\* returned as it is; otherwise the configuration is validated and the
\* describer constructed and cached; any other strategy logs a warning
GetMediaDescriber ==
    /\ cpc = "acquire"
    /\ IF fp.strategy = "NONE"
       THEN /\ FigReturn("None", 0)
            /\ UNCHANGED <<media_describer, figlog>>
       ELSE IF IsCached
       THEN /\ Acquired(media_describer)
            /\ UNCHANGED <<media_describer, figlog>>
       ELSE IF ~HasDescriber(fp.strategy)
       THEN /\ FigReturn("None", 0)
            /\ figlog' = [figlog EXCEPT !.warnings = @ + 1]
            /\ media_describer' = media_describer
       ELSE IF ConfigErrors(fp) # {}
       THEN /\ \E m \in ConfigErrors(fp) : FigReturn(m, 0)
            /\ UNCHANGED <<media_describer, figlog>>
       ELSE /\ media_describer' = figlog.constructions + 1
            /\ figlog' = [figlog EXCEPT !.constructions = @ + 1]
            /\ Acquired(figlog.constructions + 1)
    /\ UNCHANGED <<fp, content_understanding_ready, analyzer_created>>
    /\ UNCHANGED <<pipelineVars, pageVars, settingsVars, errVars>>

\* describe, first use of a Content Understanding describer:
\* await describer.create_analyzer()
CreateAnalyzer ==
    /\ cpc = "create_analyzer"
    /\ figlog' = [figlog EXCEPT !.create_analyzer = @ + 1]
    /\ analyzer_created' = TRUE
    /\ cpc' = "describe_image"
    /\ UNCHANGED <<fp, media_describer, content_understanding_ready, cop,
                   results>>
    /\ UNCHANGED <<pipelineVars, pageVars, settingsVars, errVars>>

\* describe: return await describer.describe_image(bytes)
DescribeImage ==
    /\ cpc = "describe_image"
    /\ figlog' = [figlog EXCEPT !.describe_image = @ + 1]
    /\ FigReturn("description", media_describer)
    /\ UNCHANGED <<fp, media_describer, content_understanding_ready,
                   analyzer_created>>
    /\ UNCHANGED <<pipelineVars, pageVars, settingsVars, errVars>>

\* mark_content_understanding_ready(): the latch is set, the cache untouched
MarkContentUnderstandingReady ==
    /\ cpc = "idle"
    /\ content_understanding_ready' = TRUE
    /\ figlog' = [figlog EXCEPT !.marked_first =
                     @ \/ (~content_understanding_ready /\ ~analyzer_created)]
    /\ UNCHANGED <<fp, media_describer, analyzer_created, cpc, cop, results>>
    /\ UNCHANGED <<pipelineVars, pageVars, settingsVars, errVars>>

FigNext ==
    \/ \E op \in {"describe", "get_media_describer"} : FigCall(op)
    \/ GetMediaDescriber
    \/ CreateAnalyzer
    \/ DescribeImage
    \/ MarkContentUnderstandingReady

FigSpec == FigInit /\ [][FigNext]_vars

(***************************************************************************)
(* process_page_image (prepdocslib.figureprocessor)                        *)
(***************************************************************************)
PageInit ==
    /\ PipelineIdle
    /\ FigIdle
    /\ SettingsIdle
    /\ ErrIdle
    /\ \E u \in {NoUrl, ExistingUrl} : PageStart(u)

\* the collaborators a call can be given: present or None
PageArgs ==
    [blob_manager : BOOLEAN, image_embeddings_client : BOOLEAN,
     figure_processor : BOOLEAN]

MsgBlobManager == "BlobManager must be provided"

\* the url the n-th upload_document_image call returns
UploadedUrl(n) == <<"https://example.com/image.png", n>>

\* the blob manager asked for only when an upload is due
BlobManagerMissing_WhenUploading(args, url) ==
    ~args.blob_manager /\ url = NoUrl

\* blob_manager is None
BlobManagerMissing(args, url) == ~args.blob_manager

\* the upload without the test of image.url
NeedsUpload_Always(url) == TRUE

\* image.url is None: the upload is due
NeedsUpload(url) == url = NoUrl

\* the call in progress ends
PageReturn(outcome) ==
    /\ poutcome' = outcome
    /\ ppc' = "idle"

\* a caller awaits process_page_image(image, ..., blob_manager,
\* image_embeddings_client, figure_processor)
ProcessPageImage ==
    /\ ppc = "idle"
    /\ plog.calls < MaxPageCalls
    /\ \E args \in PageArgs : pargs' = args
    /\ pentry' = [image |-> image, plog |-> plog]
    /\ plog' = [plog EXCEPT !.calls = @ + 1]
    /\ ppc' = "check"
    /\ UNCHANGED <<image, poutcome>>
    /\ UNCHANGED <<pipelineVars, figVars, settingsVars, errVars>>

\* the blob manager is required first; then the upload is due or skipped
CheckBlobManager ==
    /\ ppc = "check"
    /\ IF BlobManagerMissing(pargs, image.url)
       THEN PageReturn(MsgBlobManager)
       ELSE /\ ppc' = IF NeedsUpload(image.url) THEN "upload" ELSE "describe"
            /\ poutcome' = poutcome
    /\ UNCHANGED <<image, pargs, pentry, plog>>
    /\ UNCHANGED <<pipelineVars, figVars, settingsVars, errVars>>

\* image.url = await blob_manager.upload_document_image(...): the url is
\* set when the call returns; when it raises the call ends with the url
\* as it was
UploadDocumentImage ==
    /\ ppc = "upload"
    /\ \/ /\ image' = [image EXCEPT !.url = UploadedUrl(plog.upload + 1)]
          /\ plog' = [plog EXCEPT
                        !.upload = @ + 1,
                        !.upload_returned = @ + 1,
                        !.upload_with_url =
                            IF image.url # NoUrl THEN @ + 1 ELSE @,
                        !.url_first =
                            IF @ = NoUrl THEN UploadedUrl(plog.upload + 1)
                            ELSE @]
          /\ ppc' = "describe"
          /\ poutcome' = poutcome
       \/ /\ plog' = [plog EXCEPT
                        !.upload = @ + 1,
                        !.upload_with_url =
                            IF image.url # NoUrl THEN @ + 1 ELSE @]
          /\ PageReturn("upload raised")
          /\ image' = image
    /\ UNCHANGED <<pargs, pentry>>
    /\ UNCHANGED <<pipelineVars, figVars, settingsVars, errVars>>

\* with a figure processor: image.description = await describe(bytes)
DescribeFigure ==
    /\ ppc = "describe"
    /\ IF pargs.figure_processor
       THEN /\ \E d \in {"None", "A bar chart"} :
                 image' = [image EXCEPT !.description = d]
            /\ plog' = [plog EXCEPT !.describe = @ + 1]
       ELSE UNCHANGED <<image, plog>>
    /\ ppc' = "embed"
    /\ UNCHANGED <<pargs, pentry, poutcome>>
    /\ UNCHANGED <<pipelineVars, figVars, settingsVars, errVars>>

\* with an embeddings client: image.embedding = await
\* create_embedding_for_image(...); the image is returned
EmbedImage ==
    /\ ppc = "embed"
    /\ IF pargs.image_embeddings_client
       THEN /\ image' = [image EXCEPT !.embedding = "vector"]
            /\ plog' = [plog EXCEPT !.embed = @ + 1]
       ELSE UNCHANGED <<image, plog>>
    /\ PageReturn("returned")
    /\ UNCHANGED <<pargs, pentry>>
    /\ UNCHANGED <<pipelineVars, figVars, settingsVars, errVars>>

PageNext ==
    \/ ProcessPageImage
    \/ CheckBlobManager
    \/ UploadDocumentImage
    \/ DescribeFigure
    \/ EmbedImage

PageSpec == PageInit /\ [][PageNext]_vars

(***************************************************************************)
(* error_dict and error_response (app/backend/error.py)                    *)
(***************************************************************************)
\* The exceptions, by what the code looks at: isinstance APIError and its
\* code, isinstance HttpResponseError with its message attribute (None, ""
\* or a text), its response (None or an object) and the status_code of the
\* response (missing, 0 or a status).  A class may derive from both.
Errors ==
    {e \in [api : BOOLEAN,
            code : {"content_filter", "context_length_exceeded",
                    "rate_limit_exceeded", "None"},
            http : BOOLEAN,
            message : {"None", "", "Index not found"},
            has_response : BOOLEAN,
            status : {<<>>, <<0>>, <<404>>}] :
       /\ ~e.api => e.code = "None"
       /\ ~e.http => e.message = "None" /\ ~e.has_response
       /\ ~e.has_response => e.status = <<>>}

\* the status_code argument of error_response: left out, or given
StatusArgs == {<<>>, <<200>>, <<400>>, <<503>>}

ErrInit ==
    /\ PipelineIdle
    /\ FigIdle
    /\ PageIdle
    /\ SettingsIdle
    /\ error \in Errors
    /\ status_code \in StatusArgs
    /\ called = "none"
    /\ response = NoResponse

\* status_code: int = 500
DefaultStatusCode == 500

\* status_code = 400
ContentFilterStatus == 400

\* type(error).__name__
TypeName(e) ==
    IF e.api /\ e.http THEN "APIHttpResponseError"
    ELSE IF e.api THEN "APIError"
    ELSE IF e.http THEN "HttpResponseError"
    ELSE "Exception"

\* str(error)
Str(e) == "Operation returned an invalid status"

ERROR_MESSAGE(error_type) ==
    <<"The app encountered an error processing your request.\nIf you are an administrator of the app, check the application logs for a full traceback.\nError type: ">>
      \o error_type \o <<"\n">>

ERROR_MESSAGE_FILTER ==
    <<"Your message contains content that was flagged by the OpenAI content filter.">>

ERROR_MESSAGE_LENGTH ==
    <<"Your message exceeded the context length limit for this OpenAI model. Please shorten your message or change your settings to retrieve fewer search results.">>

ERROR_MESSAGE_AZURE(message, error_type) ==
    <<"Azure service error: ">> \o message
      \o <<"\nIf indexing is in progress, try again in a minute. Error type: ",
           error_type>>

\* getattr(error, "message", None) or str(error)
AzureMsg(e) == IF e.message \in {"None", ""} THEN Str(e) ELSE e.message

\* getattr(error.response, "status_code", None) if the response is there
AzureStatus(e) == IF e.has_response THEN e.status ELSE <<>>

\* if status: msg = f"[HTTP {status}] {msg}"
AzureText(e) ==
    IF AzureStatus(e) # <<>> /\ AzureStatus(e)[1] # 0
    THEN <<"[HTTP ", ToString(AzureStatus(e)[1]), "] ", AzureMsg(e)>>
    ELSE <<AzureMsg(e)>>

\* error_dict(error)
ErrorDict(e) ==
    IF e.api /\ e.code = "content_filter"
    THEN [error |-> ERROR_MESSAGE_FILTER]
    ELSE IF e.api /\ e.code = "context_length_exceeded"
    THEN [error |-> ERROR_MESSAGE_LENGTH]
    ELSE IF e.http
    THEN [error |-> ERROR_MESSAGE_AZURE(AzureText(e), TypeName(e))]
    ELSE [error |-> ERROR_MESSAGE(<<"<class '", TypeName(e), "'>">>)]

\* the status of the caller returned for every error
ResponseStatus_CallerOnly(e, sc) ==
    IF sc = <<>> THEN DefaultStatusCode ELSE sc[1]

\* the status error_response returns: 400 for a content filter error, else
\* the status_code argument
ResponseStatus(e, sc) ==
    IF e.api /\ e.code = "content_filter" THEN ContentFilterStatus
    ELSE IF sc = <<>> THEN DefaultStatusCode ELSE sc[1]

\* a caller calls error_dict(error)
CallErrorDict ==
    /\ called = "none"
    /\ called' = "error_dict"
    /\ response' = [body |-> ErrorDict(error), status |-> <<>>]
    /\ UNCHANGED <<error, status_code>>
    /\ UNCHANGED <<pipelineVars, figVars, pageVars, settingsVars>>

\* a caller calls error_response(error, route, status_code)
CallErrorResponse ==
    /\ called = "none"
    /\ called' = "error_response"
    /\ response' = [body |-> ErrorDict(error),
                    status |-> <<ResponseStatus(error, status_code)>>]
    /\ UNCHANGED <<error, status_code>>
    /\ UNCHANGED <<pipelineVars, figVars, pageVars, settingsVars>>

ErrNext ==
    \/ CallErrorDict
    \/ CallErrorResponse

ErrSpec == ErrInit /\ [][ErrNext]_vars

(***************************************************************************)
(* Properties                                                              *)
(***************************************************************************)
Range(q) == {q[i] : i \in 1..Len(q)}

IsPrefix(p, q) == Len(p) <= Len(q) /\ SubSeq(q, 1, Len(p)) = p

\* the steps of the per-file try block
PerFileSteps == {"read", "upload_blob", "add_file", "upload_session_progress"}

\* positions of to_process whose unit raised, at any step or at one of `steps`
FailedAt(steps) == {f[1] : f \in {g \in Range(failed) : g[2] \in steps}}

\* the flattened keys of the entries whose add_file returned, in order
AddedKeys == [i \in 1..Len(adds) |-> to_process[adds[i]].flattened]

\* every entry of to_process has been taken by the loop
AllAttempted == Range(adds) \cup FailedAt(PerFileSteps) = 1..files_total

\* the final snapshot has been written
FinalWritten == pc \in {"delete", "returned"}

\* C1, as stated: whatever step of the try block raises for the entries in
\* F, the job raises nothing, attempts every entry, and its final snapshot is
\* completed with files_done = len(indexed_ids) = N - |F| and no key of an
\* entry of F in indexed_ids.
C1_AsStated ==
    /\ raised \notin PerFileSteps
    /\ FinalWritten =>
         /\ AllAttempted
         /\ progress.status = "completed"
         /\ progress.files_done = Len(progress.indexed_ids)
         /\ progress.files_done = files_total - Cardinality(FailedAt(PerFileSteps))
         /\ \A i \in FailedAt(PerFileSteps) :
              to_process[i].flattened \notin Range(progress.indexed_ids)

\* C1, amended: no exception of the try block leaves the job, which raises
\* only before the loop or after it has taken every entry; the final snapshot
\* is completed, its indexed_ids are the keys of the entries whose add_file
\* returned, in order, and files_done = len(indexed_ids) = N - |F'|, F' the
\* entries that raised at read, upload_blob or add_file (an entry whose
\* progress push raised is indexed and counted).
C1_FailureIsolated ==
    /\ raised \notin PerFileSteps
    /\ (pc = "raised" /\ writes # <<>>) => AllAttempted
    /\ FinalWritten =>
         /\ AllAttempted
         /\ progress = Snapshot("completed", files_total, Len(adds),
                                AddedKeys, user_oid)
         /\ Len(adds) = files_total
              - Cardinality(FailedAt({"read", "upload_blob", "add_file"}))

\* a run that returned although an entry raised at add_file and a later
\* entry was indexed
C1_Witness ==
    /\ pc = "returned"
    /\ \E i \in FailedAt({"add_file"}) : \E j \in Range(adds) : i < j

\* C2: over the snapshots written in one job (and over the calls made, whether
\* they succeeded or not) files_done never decreases,
\* indexed_ids only grows at its end, len(indexed_ids) = files_done, and
\* files_total is that of the first snapshot.
C2_SnapshotsMonotone ==
    \A q \in {writes, calls} :
      /\ \A i \in 1..Len(q) :
           /\ Len(q[i].indexed_ids) = q[i].files_done
           /\ q[i].files_total = q[1].files_total
      /\ \A i \in 1..(Len(q) - 1) :
           /\ q[i].files_done <= q[i + 1].files_done
           /\ IsPrefix(q[i].indexed_ids, q[i + 1].indexed_ids)

\* three snapshots written, the last with two ids
C2_Witness ==
    /\ Len(writes) >= 3
    /\ writes[Len(writes)].files_done >= 2

\* files_done of the stored snapshot, 0 while none is stored
StoredDone == IF progress = NoSnapshot THEN 0 ELSE progress.files_done

\* entries indexed beyond the stored snapshot whose progress push raised
PushFailsSince ==
    Cardinality({k \in (StoredDone + 1)..Len(adds) :
                   adds[k] \in FailedAt({"upload_session_progress"})})

\* the stored snapshot is the last write that succeeded, whole
StoredIsLastWrite ==
    progress = IF writes = <<>> THEN NoSnapshot ELSE writes[Len(writes)]

\* C3, as stated: at every point the stored snapshot is the last one whose
\* write succeeded, and the entries whose add_file returned exceed its
\* files_done by at most one.
C3_AsStated ==
    /\ StoredIsLastWrite
    /\ Len(adds) - StoredDone <= 1

\* C3, amended: at every point the stored snapshot is the last one whose
\* write succeeded, whole, and the entries whose add_file returned exceed its
\* files_done by at most one plus the number of entries indexed since that
\* write whose progress push raised (at most one when no push raised).
C3_LagBounded ==
    /\ StoredIsLastWrite
    /\ Len(adds) - StoredDone >= 0
    /\ Len(adds) - StoredDone <= 1 + PushFailsSince

\* a push raised and the next entry is indexed and not yet pushed: the
\* stored snapshot, the last one written, lags by two
C3_Witness ==
    /\ pc = "push"
    /\ writes # <<>>
    /\ progress = writes[Len(writes)]
    /\ Len(adds) - progress.files_done = 2
    /\ PushFailsSince = 1

\* positions of calls with the given status
CallsWith(status) == {i \in 1..Len(calls) : calls[i].status = status}

\* C4: one call before any per-file work with processing, 0, []; one call
\* with processing after each add_file that returned; one call with
\* completed after the loop, however many entries failed, and no call after
\* it.
C4_SnapshotCalls ==
    /\ pc \in {"read", "upload", "add_file", "push", "progress_final",
               "delete", "returned"} => calls # <<>>
    /\ (uploads # <<>> \/ failed # <<>>) => calls # <<>>
    /\ calls # <<>> =>
         /\ calls[1] = Snapshot("processing", files_total, 0, <<>>, user_oid)
         /\ Cardinality(CallsWith("processing")) =
              1 + Len(adds) - (IF pc = "push" THEN 1 ELSE 0)
         /\ \A i \in CallsWith("processing") :
              /\ calls[i].files_done = i - 1
              /\ calls[i].indexed_ids = SubSeq(AddedKeys, 1, i - 1)
    /\ Cardinality(CallsWith("completed")) <= 1
    /\ CallsWith("completed") \subseteq {Len(calls)}
    /\ pc \in {"read", "upload", "add_file", "push", "progress_final"} =>
         CallsWith("completed") = {}
    /\ FinalWritten =>
         /\ Cardinality(CallsWith("completed")) = 1
         /\ progress.status = "completed"

\* a run that returned with a failed entry and an indexed one
C4_Witness ==
    /\ pc = "returned"
    /\ FailedAt({"read", "upload_blob", "add_file"}) # {}
    /\ Len(adds) >= 1
    /\ calls[Len(calls)].status = "completed"

\* get_session_chunks has returned its result into data
ChunksReturned ==
    /\ pc \notin {"idle", "get_chunks"}
    /\ ~(pc = "raised" /\ raised = "CollaboratorError" /\ calls = <<>>)

\* the job raised a ValueError and no collaborator was called after
\* get_session_chunks
RejectedUntouched ==
    /\ pc = "raised"
    /\ raised \in {"ValueError: no chunks", "ValueError: size",
                   "ValueError: count"}
    /\ calls = <<>> /\ writes = <<>> /\ progress = NoSnapshot
    /\ uploads = <<>> /\ adds = <<>> /\ deletes = 0

\* C5, as stated: an archive that is missing or empty, over the size limit,
\* or with more entries than MAX_ZIP_FILE_COUNT is rejected with ValueError
\* before any snapshot, upload, add_file or delete_session; size goes first.
C5_AsStated ==
    ChunksReturned =>
      /\ (\/ data.size = 0
          \/ data.size > MAX_ZIP_SIZE_BYTES
          \/ (data.valid /\ ListingCount(data) > MAX_ZIP_FILE_COUNT))
           => RejectedUntouched
      /\ data.size > MAX_ZIP_SIZE_BYTES => raised = "ValueError: size"

\* C5, amended: an archive that is missing or empty, over the size limit, or
\* with more non-directory entries than MAX_ZIP_FILE_COUNT is rejected with
\* ValueError before any snapshot, upload, add_file or delete_session; the
\* size check goes before the count check.
C5_RejectedBeforeWork ==
    ChunksReturned =>
      /\ (\/ data.size = 0
          \/ data.size > MAX_ZIP_SIZE_BYTES
          \/ (data.valid /\ MemberCount(data) > MAX_ZIP_FILE_COUNT))
           => RejectedUntouched
      /\ data.size > MAX_ZIP_SIZE_BYTES => raised = "ValueError: size"

\* an archive over both limits, rejected for its size
C5_Witness ==
    /\ ChunksReturned
    /\ data.size > MAX_ZIP_SIZE_BYTES
    /\ data.valid
    /\ MemberCount(data) > MAX_ZIP_FILE_COUNT
    /\ RejectedUntouched

\* the archive passed the checks that precede the count check
CountChecked ==
    /\ ChunksReturned
    /\ data.size > 0
    /\ data.size <= MAX_ZIP_SIZE_BYTES
    /\ data.valid

\* C6, as stated: the archive is rejected for its count exactly when the
\* number of entries of its listing, directories included, exceeds the
\* maximum.
C6_AsStated ==
    CountChecked =>
      (raised = "ValueError: count"
         <=> ListingCount(data) > MAX_ZIP_FILE_COUNT)

\* C6, amended: the archive is rejected for its count exactly when the number
\* of its non-directory entries exceeds the maximum (directory entries are
\* dropped before the count is taken); an archive whose listing has at most
\* the maximum number of entries is never rejected for its count.
C6_CountsFiles ==
    CountChecked =>
      /\ raised = "ValueError: count"
           <=> MemberCount(data) > MAX_ZIP_FILE_COUNT
      /\ ListingCount(data) <= MAX_ZIP_FILE_COUNT
           => raised # "ValueError: count"

\* an archive with exactly the maximum number of files and a longer listing
\* was accepted
C6_Witness ==
    /\ CountChecked
    /\ MemberCount(data) = MAX_ZIP_FILE_COUNT
    /\ ListingCount(data) > MAX_ZIP_FILE_COUNT
    /\ writes # <<>>

\* the descriptor provides a non-empty filename and user_oid
ProvidesBoth ==
    /\ body.kind = "object"
    /\ Truthy(DictGet(body.value, "filename"))
    /\ Truthy(DictGet(body.value, "user_oid"))

\* C7: a body that does not parse, or parses to something that does not
\* provide both filename and user_oid (a value that is no object included),
\* makes zip_processor return normally without starting process_zip_job:
\* nothing is written, uploaded or deleted.
C7_MalformedReturns ==
    (hpc # "triggered" /\ ~ProvidesBoth) =>
      /\ hpc = "returned"
      /\ herr = "none"
      /\ invocations = 0
      /\ pc = "idle"
      /\ calls = <<>> /\ uploads = <<>> /\ adds = <<>> /\ deletes = 0

\* C8: for a valid descriptor process_zip_job is started exactly once; when
\* it raises, zip_processor raises that exception and does not start it
\* again; when it returns, zip_processor returns.
C8_RunOnceAndReraise ==
    ProvidesBoth =>
      /\ invocations = IF hpc = "triggered" THEN 0 ELSE 1
      /\ filename = IF hpc = "triggered" THEN None
                    ELSE DictGet(body.value, "filename")
      /\ hpc = "raised" => pc = "raised" /\ herr = raised /\ herr # "none"
      /\ hpc = "returned" => pc = "returned" /\ herr = "none"

\* the handler re-raised a failure of the final snapshot write
C8_Witness ==
    /\ ProvidesBoth
    /\ hpc = "raised"
    /\ invocations = 1
    /\ herr = "CollaboratorError"
    /\ CallsWith("completed") # {}

\* C9: delete_session is called at most once, only after the completed
\* snapshot was written, never on a run that raised before that; after it the
\* stored snapshot is still the completed one.
C9_DeleteAfterCompleted ==
    /\ deletes <= 1
    /\ deletes = 1 =>
         /\ writes # <<>>
         /\ writes[Len(writes)].status = "completed"
         /\ progress = writes[Len(writes)]
    /\ (pc = "raised" /\ (writes = <<>>
                           \/ writes[Len(writes)].status # "completed"))
         => deletes = 0
    /\ pc = "returned" =>
         deletes = 1 /\ ~chunks /\ progress.status = "completed"

\* the run returned: chunk state deleted once, completed snapshot stored
C9_Witness ==
    /\ pc = "returned"
    /\ deletes = 1
    /\ ~chunks
    /\ progress.status = "completed"
    /\ failed # <<>>

\* C10: the key of an entry is basename + "__" + rel_path with every "/"
\* replaced by "__", and two entries of one job with different names have
\* different keys.
C10_KeysDistinct ==
    \A i, j \in 1..Len(to_process) :
      /\ to_process[i].flattened =
           ZipBasename(filename) \o <<"_", "_">>
             \o Replace(to_process[i].rel_path, "/", <<"_", "_">>)
      /\ to_process[i].name # to_process[j].name
           => to_process[i].flattened # to_process[j].flattened

StrictlyIncreasing(q) == \A i, j \in 1..Len(q) : i < j => q[i] < q[j]

\* positions of to_process for which add_file was called
AddFileCalled ==
    Range(adds) \cup FailedAt({"add_file"})
      \cup (IF pc = "add_file" THEN {idx} ELSE {})

\* the unit of entry j is over: an exception was caught, or its push was stored
UnitEnded(j) ==
    \/ j \in FailedAt(PerFileSteps)
    \/ \E k \in 1..Len(adds) :
         /\ adds[k] = j
         /\ \E w \in Range(writes) :
              w.status = "processing" /\ w.files_done = k

\* the loop is inside the unit of entry idx
InUnit == pc \in {"read", "upload", "add_file", "push"}

\* C17: within a job the entries are processed one at a time in to_process
\* order: upload_blob of an entry comes before its add_file, add_file is
\* called only for an entry whose upload_blob returned, the key is appended
\* only after both returned, the unit of every earlier entry has ended before
\* the next upload_blob, and indexed_ids is a subsequence of the keys of
\* to_process.
C17_OneAtATimeInOrder ==
    /\ StrictlyIncreasing(uploads)
    /\ StrictlyIncreasing(adds)
    /\ AddFileCalled \subseteq Range(uploads)
    /\ indexed_ids = AddedKeys
    /\ Range(uploads) \cup Range(adds) \cup FailedAt(PerFileSteps) \subseteq 1..idx
    /\ pc \in {"read", "upload"} => idx \notin Range(uploads)
    /\ pc = "add_file" => idx \notin Range(adds)
    /\ \A j \in 1..idx : (InUnit /\ j = idx) \/ UnitEnded(j)

\* a job of three entries: one raised in its unit, two were indexed after it
C17_Witness ==
    /\ pc = "returned"
    /\ Len(to_process) = 3
    /\ 1 \in FailedAt({"upload_blob"})
    /\ adds = <<2, 3>>
    /\ Len(indexed_ids) = 2

\* an entry of the listing the comprehension keeps
Eligible(name) ==
    /\ name[Len(name)] # "/"
    /\ LET norm == LStrip(Replace(name, "\\", <<"/">>), "/")
       IN  Lower(SplitExt(norm)) \in SupportedExtensions

\* the archive passed validation and to_process was computed from it
Selected == pc = "progress_init" \/ calls # <<>>

\* C18: to_process is the listing restricted, in its order, to the entries
\* that are no directory entries and whose extension, lower-cased and taken
\* from the path with "/" separators and no leading "/", is supported;
\* files_total is its length.  The listing is compared when the loop is
\* entered and when it is left.
C18_FilteredInOrder ==
    /\ Selected => files_total = Len(to_process)
    /\ pc \in {"progress_init", "progress_final"} =>
         /\ [i \in 1..Len(to_process) |-> to_process[i].name]
              = SelectSeq(data.names, Eligible)
         /\ \A i \in 1..Len(to_process) :
              to_process[i].rel_path
                = LStrip(Replace(to_process[i].name, "\\", <<"/">>), "/")

\* a listing with a directory entry and an extension in capitals, the former
\* dropped and the latter kept
C18_Witness ==
    /\ Selected
    /\ Len(data.names) = 3
    /\ \E i \in 1..3 : data.names[i][Len(data.names[i])] = "/"
    /\ files_total = 2
    /\ \E i \in 1..2 : SplitExt(to_process[i].rel_path) = <<".", "T", "S">>
    /\ to_process[1].name # to_process[2].name

\* C20: across the executions for one upload_id, a stored snapshot with
\* status completed is never followed by one with status processing or with
\* a smaller files_done.
C20_CompletedIsFinal ==
    [][progress.status = "completed"
         => /\ progress'.status = "completed"
            /\ progress'.files_done >= progress.files_done]_vars

\* the invocations that worked with settings object o
UsersOf(o) == {i \in Invocations : <<o, i>> \in slog.used}

\* C19, as stated: two invocations of one process share no in-process
\* mutable state: no settings object (blob manager, ingester, figure
\* processor) that one works with is reachable from the other.
C19_AsStated ==
    \A i, j \in Invocations :
      (i # j /\ held[i] # 0 /\ held[j] # 0) => held[i] # held[j]

\* C19, amended: the invocations of one process share the settings object
\* cached on get_settings: every invocation works with an object some
\* invocation built, and one that finds the cache set builds nothing and
\* works with an object built by another invocation.
C19_SettingsShared ==
    /\ \A i \in Invocations :
         held[i] # 0 => held[i] \in 1..Len(slog.built)
    /\ \A i \in slog.hit :
         /\ i \notin Range(slog.built)
         /\ held[i] # 0 => slog.built[held[i]] # i
    /\ \A u \in slog.used : u[1] \in 1..Len(slog.built)

\* two invocations have worked with one settings object, built by the first
C19_Witness ==
    /\ slog.built = <<1>>
    /\ 2 \in slog.hit
    /\ UsersOf(1) = {1, 2}

\* the processor has a strategy with a describer and a valid configuration
CorrectlyConfigured ==
    /\ fp.strategy \in {"OPENAI", "CONTENTUNDERSTANDING"}
    /\ fp.strategy = "OPENAI" => fp.openai_client /\ fp.openai_model
    /\ fp.strategy = "CONTENTUNDERSTANDING" =>
         fp.content_understanding_endpoint /\ fp.credential = "token"

\* the calls of operation op that ended
Ended(op) == {i \in 1..Len(results) : results[i].op = op}

\* C11: on a correctly configured FigureProcessor, over any sequence of
\* describe and get_media_describer calls, the describer is constructed at
\* most once and stays cached, every acquisition returns that one instance,
\* and with CONTENTUNDERSTANDING create_analyzer is awaited exactly once,
\* by the first describe, however many follow (never with OPENAI).
C11_ConstructedOnce ==
    CorrectlyConfigured =>
      /\ figlog.constructions <= 1
      /\ media_describer = figlog.constructions
      /\ \A i \in 1..Len(results) :
           /\ results[i].describer = 1
           /\ results[i].outcome
                = (IF results[i].op = "describe" THEN "description"
                   ELSE "describer")
      /\ figlog.create_analyzer <= 1
      /\ fp.strategy = "OPENAI" => figlog.create_analyzer = 0
      /\ (/\ fp.strategy = "CONTENTUNDERSTANDING"
          /\ ~figlog.marked_first
          /\ (Ended("describe") # {} \/ cpc = "describe_image"))
           => figlog.create_analyzer = 1

\* three calls on a Content Understanding processor have ended: one
\* describer, one create_analyzer, two descriptions
C11_Witness ==
    /\ fp.strategy = "CONTENTUNDERSTANDING"
    /\ CorrectlyConfigured
    /\ Len(results) = 3
    /\ results[1].op = "describe"
    /\ results[2].op = "get_media_describer"
    /\ results[3].op = "describe"
    /\ figlog.constructions = 1
    /\ figlog.create_analyzer = 1
    /\ figlog.describe_image = 2

\* the defects the configuration of the processor has, by their message
Defects ==
    (IF fp.strategy = "OPENAI" /\ ~(fp.openai_client /\ fp.openai_model)
     THEN {MsgOpenAI} ELSE {})
    \cup (IF fp.strategy = "CONTENTUNDERSTANDING"
               /\ ~fp.content_understanding_endpoint
          THEN {MsgEndpoint} ELSE {})
    \cup (IF fp.strategy = "CONTENTUNDERSTANDING" /\ fp.credential = "none"
          THEN {MsgCredential} ELSE {})
    \cup (IF fp.strategy = "CONTENTUNDERSTANDING" /\ fp.credential = "key"
          THEN {MsgKey} ELSE {})

\* C13: with an invalid configuration (OPENAI without client or model,
\* CONTENTUNDERSTANDING without endpoint, without credential or with a key
\* credential) every acquisition raises ValueError with a message of a
\* defect that is present, before any remote call, and nothing is
\* constructed or cached.
C13_InvalidConfigRaises ==
    Defects # {} =>
      /\ \A i \in 1..Len(results) :
           results[i].outcome \in Defects /\ results[i].describer = 0
      /\ cpc \in {"idle", "acquire"}
      /\ figlog.constructions = 0
      /\ media_describer = 0
      /\ figlog.create_analyzer = 0
      /\ figlog.describe_image = 0

\* a Content Understanding processor with a key credential has rejected a
\* describe and a get_media_describer call
C13_Witness ==
    /\ fp.strategy = "CONTENTUNDERSTANDING"
    /\ fp.content_understanding_endpoint
    /\ fp.credential = "key"
    /\ Len(results) >= 2
    /\ results[1] = [op |-> "describe", outcome |-> MsgKey, describer |-> 0]
    /\ results[2].op = "get_media_describer"
    /\ results[2].outcome = MsgKey
    /\ media_describer = 0

\* C14: with strategy NONE or an unrecognized strategy every call returns
\* None without raising, no describer is constructed or cached and no
\* remote call is made; each call on an unrecognized strategy logs the
\* warning, a call on NONE logs none.
C14_NoDescriber ==
    fp.strategy \in {"NONE", "unknown_strategy"} =>
      /\ \A i \in 1..Len(results) :
           results[i].outcome = "None" /\ results[i].describer = 0
      /\ cpc \in {"idle", "acquire"}
      /\ figlog.constructions = 0
      /\ media_describer = 0
      /\ figlog.create_analyzer = 0
      /\ figlog.describe_image = 0
      /\ figlog.warnings
           = (IF fp.strategy = "NONE" THEN 0 ELSE Len(results))

\* an unrecognized strategy has answered a get_media_describer and a
\* describe call with None and logged the warning twice
C14_Witness ==
    /\ fp.strategy = "unknown_strategy"
    /\ Len(results) = 2
    /\ results[1].op = "get_media_describer"
    /\ results[2].op = "describe"
    /\ results[2].outcome = "None"
    /\ figlog.warnings = 2
    /\ media_describer = 0

\* C15, as stated: over any sequence of process_page_image calls on one
\* image the upload operation is invoked at most once.
C15_AsStated == plog.upload <= 1

\* C15, amended: the upload operation is invoked only while image.url is
\* unset, at most one invocation returns, and once image.url is set no
\* later call changes it; an invocation that raises leaves the url unset,
\* so a later call invokes the upload again.
C15_UploadOnlyWhileUnset ==
    /\ plog.upload_with_url = 0
    /\ ppc = "upload" => image.url = NoUrl
    /\ plog.upload_returned <= 1
    /\ plog.url_first # NoUrl => image.url = plog.url_first
    /\ plog.upload_returned = 0 => image.url = pentry.image.url
    /\ plog.upload_returned = 1 => image.url = UploadedUrl(plog.upload)

\* an upload raised, the next call uploaded, a third call skipped the upload
C15_Witness ==
    /\ plog.calls = 3
    /\ plog.upload = 2
    /\ plog.upload_returned = 1
    /\ image.url = UploadedUrl(2)
    /\ pentry.image.url = UploadedUrl(2)
    /\ poutcome = "returned"
    /\ ppc = "idle"

\* the collaborator calls counted in a log
CollaboratorCalls(l) == <<l.upload, l.describe, l.embed>>

\* C16: a call without a blob manager ends with "BlobManager must be
\* provided" before any collaborator is called, and the url, description
\* and embedding of the image are what they were, whatever the other
\* arguments are and whether or not the url is set.
C16_BlobManagerRequired ==
    (~pargs.blob_manager /\ plog.calls > 0 /\ ppc # "check") =>
      /\ ppc = "idle"
      /\ poutcome = MsgBlobManager
      /\ image = pentry.image
      /\ CollaboratorCalls(plog) = CollaboratorCalls(pentry.plog)

\* a call with a figure processor and an embeddings client but no blob
\* manager, on an image an earlier call uploaded and described, was rejected
C16_Witness ==
    /\ ~pargs.blob_manager
    /\ pargs.figure_processor
    /\ pargs.image_embeddings_client
    /\ ppc = "idle"
    /\ poutcome = MsgBlobManager
    /\ image.url = UploadedUrl(1)
    /\ image.description = "A bar chart"
    /\ plog.calls = 2

\* C21: get_settings builds the settings at most once per process: no
\* second settings object is ever constructed, every call that returned
\* holds the one object, and a call that raised during construction left
\* the cache unset unless a call has built since.
C21_BuiltOnce ==
    /\ Len(slog.built) <= 1
    /\ \A i, j \in Invocations :
         (held[i] # 0 /\ held[j] # 0) => held[i] = held[j]
    /\ settings_cache = Len(slog.built)

\* process_zip_job has ended: it raised to its caller, or it returned after
\* the completed snapshot was stored and delete_session was called
JobEnded ==
    \/ pc = "raised"
    \/ /\ pc = "returned"
       /\ progress.status = "completed"
       /\ deletes = 1

\* C22: every run of process_zip_job ends, raising to its caller or having
\* written the completed snapshot and called delete_session; the loop only
\* moves forward by one entry, so each entry of to_process is visited at
\* most once, and it is never inside the unit of an entry that has failed.
C22_Terminates ==
    /\ [](InUnit => idx \notin FailedAt(PerFileSteps))
    /\ [][idx' = idx \/ (idx' = idx + 1 /\ pc' = "read")]_vars
    /\ (pc = "get_chunks") ~> JobEnded

\* a run over two entries, the first of which failed, has returned
C22_Witness ==
    /\ pc = "returned"
    /\ JobEnded
    /\ idx = 2
    /\ FailedAt(PerFileSteps) = {1}
    /\ adds = <<2>>

\* the status the caller asked for
CallerStatus == IF status_code = <<>> THEN <<500>> ELSE status_code

\* C23: every error gets exactly one of four outcomes, by precedence: an
\* APIError with code content_filter the content-filter message and status
\* 400; an APIError with code context_length_exceeded the context-length
\* message and the caller's status (500 by default); an HttpResponseError
\* the Azure service message, with the "[HTTP status]" prefix exactly when
\* the response has a non-zero status, and the caller's status; any other
\* error the generic message and the caller's status.
C23_Classified ==
    called # "none" =>
      LET filter == error.api /\ error.code = "content_filter"
          length == error.api /\ error.code = "context_length_exceeded"
          azure  == error.http /\ ~filter /\ ~length
          msg    == response.body.error
          prefix == error.has_response /\ error.status \in {<<404>>}
          status == IF called = "error_response" THEN response.status
                    ELSE <<>>
          asked  == IF called = "error_response" THEN CallerStatus ELSE <<>>
      IN  /\ filter =>
               /\ msg = ERROR_MESSAGE_FILTER
               /\ called = "error_response" => status = <<400>>
          /\ length => msg = ERROR_MESSAGE_LENGTH /\ status = asked
          /\ azure =>
               /\ msg[1] = "Azure service error: "
               /\ prefix = (msg[2] = "[HTTP ")
               /\ prefix => msg[3] = "404" /\ msg[4] = "] "
               /\ Len(msg) = (IF prefix THEN 7 ELSE 4)
               /\ msg[Len(msg) - 2]
                    = (IF error.message = "Index not found"
                       THEN "Index not found" ELSE Str(error))
               /\ status = asked
          /\ (~filter /\ ~length /\ ~azure) =>
               /\ msg[1] = ERROR_MESSAGE(<<>>)[1]
               /\ Len(msg) = 5
               /\ status = asked
          /\ Cardinality({k \in {ERROR_MESSAGE_FILTER[1],
                                  ERROR_MESSAGE_LENGTH[1],
                                  "Azure service error: ",
                                  ERROR_MESSAGE(<<>>)[1]} : msg[1] = k}) = 1

\* an error that is an APIError with code content_filter and an
\* HttpResponseError with a response status, passed with status_code 503,
\* got the content-filter message and status 400
C23_Witness ==
    /\ called = "error_response"
    /\ error.api
    /\ error.code = "content_filter"
    /\ error.http
    /\ error.status = <<404>>
    /\ status_code = <<503>>
    /\ response = [body |-> [error |-> ERROR_MESSAGE_FILTER],
                   status |-> <<400>>]

====
